---- MODULE Spec2Model ----
(***************************************************************************)
(* ebs-bootstrap: locate an EBS volume, attach it to this instance with a  *)
(* retry/backoff loop, make sure it carries a filesystem, mount it.        *)
(* The model follows src/ebs.go (attachVolume, ensureVolumeInited,         *)
(* ensureVolumeMounted, volumeFromID, and main with its flags).            *)
(***************************************************************************)
EXTENDS Integers, Sequences, FiniteSets, TLC

\* ------------------------------------------------------------------ bounds

\* Largest finite -max-attempts value explored (7 attempts show the 100 s cap).
MaxBudget == 7
\* Smallest -max-attempts value explored is -MinBudgetBelowZero.
MinBudgetBelowZero == 1

\* Consecutive calls of ensureVolumeInited on one device that are followed.
MaxInitCalls == 4

\* The retry loop is followed for at most this many attempts when the budget
\* is the default one, which no run exhausts.
AttemptCap == MaxBudget + 1
MaxSettle == 5

\* ------------------------------------------------------- program constants

\* backoff.Backoff{Min: 5s, Max: 100s, Factor: 2, Jitter: false}, in seconds
BackoffMin == 5
BackoffMax == 100
BackoffFactor == 2

\* flag default of -max-attempts, math.MaxInt64: TLC's integers are 32 bits
\* wide, and every value above AttemptCap behaves alike in the loop test.
DefaultMaxAttempts == 2147483647

\* ----------------------------------------------------------------- values

\* an error is its chain of messages, outermost first; nil is the empty chain
NoError == <<>>
NewError(message) == <<message>>

\* the instance this process runs on, and some other instance
instanceID == "i-self"
Instances == {"i-self", "i-other"}

\* -block-device and -mount-point, as character sequences ("/x", "/d")
blockDevice == <<"/", "x">>
mountPoint == <<"/", "d">>
Devices == {blockDevice, <<"/", "y">>}

\* ec2.VolumeAttachmentState*
VolumeAttachmentStateAttached == "attached"
AttachmentStates == {"attaching", "attached", "detaching", "detached", "busy"}

Attachment == [InstanceId : Instances, Device : Devices, State : AttachmentStates]

\* volumes the inventory may report to volumeFromID: no attachment, one
\* attachment (settled or going away), and two attachments whose second one
\* names this instance
Volumes ==
    {[Attachments |-> <<>>]}
    \cup {[Attachments |-> <<a>>] :
            a \in {x \in Attachment : x.State \in {"attached", "detaching"}}}
    \cup {[Attachments |-> <<a, [InstanceId |-> instanceID, Device |-> blockDevice,
                                 State |-> "attached"]>>] :
            a \in {x \in Attachment : x.Device = blockDevice /\ x.State = "attached"}}

NoVolume == [Attachments |-> <<>>]

Budgets == ((0 - MinBudgetBelowZero) .. MaxBudget) \cup {DefaultMaxAttempts}

\* errors.Wrap(err, message): nil stays nil
Wrap(err, message) == IF err = NoError THEN NoError ELSE <<message>> \o err

\* ------------------------------------------------------------------ state

VARIABLES
    pc,              \* position of the process in main and its callees
    maxAttempts,     \* flag -max-attempts
    useEBS,          \* flag -use-ebs
    volume,          \* main: the volume volumeFromID returned
    attachRet,       \* main: what attachVolume returned ("pending" before)
    attempts,        \* attachVolume: loop counter
    attachStarted,   \* attachVolume: an AttachVolume call returned without error
    attachSucceeded, \* attachVolume: an attempt confirmed the attachment
    lastError,       \* attachVolume: the error last recorded
    bAttempt,        \* backoff.Backoff: its attempt counter
    issued,          \* this attempt: how its AttachVolume call ended, if made
    polled,          \* this attempt: the first attachment the poll reported
    statOk,          \* this attempt: os.Stat(blockDevice) returned no error
    attachCalls,     \* this call of attachVolume: AttachVolume requests sent
    attachOks,       \* this call of attachVolume: requests answered without error
    describeCalls,   \* this call of attachVolume: DescribeVolumes polls made
    sleeps,          \* this call of attachVolume: time.Sleep calls
    slept,           \* this call of attachVolume: seconds slept
    hasFS,           \* the device carries a filesystem signature
    mtab,            \* the system's mount table, as `mount` prints it
    initRet,         \* what ensureVolumeInited returned
    probed,          \* this call of ensureVolumeInited: how blkid ended
    formatCalls,     \* this call of ensureVolumeInited: mkfs invocations
    prevInit,        \* the call of ensureVolumeInited before this one, if any
    mountRet,        \* what ensureVolumeMounted returned
    mounted,         \* this call of ensureVolumeMounted: how `mount dev dir` ended
    mountCalls,      \* this call of ensureVolumeMounted: `mount dev dir` invocations
    tableReads,      \* this call of ensureVolumeMounted: `mount` listings
    tableErr,        \* this call of ensureVolumeMounted: the listing's error
    fatal,           \* the error main panicked with
    locateCalls,     \* DescribeVolumes calls volumeFromID made
    locateFilters,   \* the filter names of volumeFromID's DescribeVolumes call
    result,          \* volumeFromID: the answer to its DescribeVolumes call
    locateErr,       \* main: the error volumeFromID returned
    stages,          \* main: the stages that returned, in order, and how
    metadataCalls,   \* main: GetMetadata calls made
    lastRecorded,    \* this call of attachVolume: the error an attempt recorded last
    attemptErr,      \* this attempt: the error it recorded, if any
    settleAt         \* the provider: the attempt from which on it answers favourably

attachLocals == <<attempts, attachStarted, attachSucceeded, lastError, bAttempt>>
attachTrace == <<issued, polled, statOk, attachCalls, attachOks, describeCalls,
                 sleeps, slept>>
flags == <<maxAttempts, useEBS>>
os == <<hasFS, mtab>>
initVars == <<initRet, probed, formatCalls, prevInit>>
mountVars == <<mountRet, mounted, mountCalls, tableReads, tableErr>>
locateVars == <<locateCalls, locateFilters, result, locateErr>>
runVars == <<stages, metadataCalls>>
attachErrs == <<lastRecorded, attemptErr>>
vars == <<pc, flags, volume, attachRet, attachLocals, attachTrace, os,
          initVars, mountVars, fatal, locateVars, runVars,
          attachErrs, settleAt>>

\* the errors the collaborators return
AttachVolumeError == NewError("AttachVolume: provider error")
DescribeVolumesError == NewError("DescribeVolumes: provider error")
StatError == NewError("stat: no such file or directory")

NotPolled == [InstanceId |-> "none", Device |-> <<>>, State |-> "none"]
NotIssued == "none"

\* what the locals and the per-call record hold outside a call of attachVolume
AttachIdle ==
    /\ attempts = 0
    /\ attachStarted = FALSE
    /\ attachSucceeded = FALSE
    /\ lastError = NoError
    /\ bAttempt = 0
    /\ issued = NotIssued
    /\ polled = NotPolled
    /\ statOk = FALSE
    /\ attachCalls = 0
    /\ attachOks = 0
    /\ describeCalls = 0
    /\ sleeps = 0
    /\ slept = 0
    /\ lastRecorded = NoError
    /\ attemptErr = NoError

\* the frame of attachVolume is popped
AttachFramePopped ==
    /\ attempts' = 0
    /\ attachStarted' = FALSE
    /\ attachSucceeded' = FALSE
    /\ lastError' = NoError
    /\ bAttempt' = 0
    /\ issued' = NotIssued
    /\ polled' = NotPolled
    /\ statOk' = FALSE
    /\ attachCalls' = 0
    /\ attachOks' = 0
    /\ describeCalls' = 0
    /\ sleeps' = 0
    /\ slept' = 0
    /\ lastRecorded' = NoError
    /\ attemptErr' = NoError

\* ------------------------------------------------------------ backoff

RECURSIVE Pow(_, _)
Pow(b, n) == IF n = 0 THEN 1 ELSE b * Pow(b, n - 1)

\* faulty variant: the interval is not kept below Max
ForAttempt_NoMax(attempt) ==
    LET dur == BackoffMin * Pow(BackoffFactor, attempt)
    IN  IF dur < BackoffMin THEN BackoffMin ELSE dur

\* Backoff.ForAttempt as the retry loop configures it: Min * Factor^attempt
\* kept within [Min, Max]
ForAttempt(attempt) ==
    LET dur == BackoffMin * Pow(BackoffFactor, attempt)
    IN  IF dur < BackoffMin THEN BackoffMin
        ELSE IF dur > BackoffMax THEN BackoffMax
        ELSE dur

\* ------------------------------------------------------- attachVolume

\* faulty variant: the short-circuit looks at the attachment's state, not its owner
AlreadyAttached_ByState(v, instance) ==
    Len(v.Attachments) > 0
    /\ v.Attachments[1].State = VolumeAttachmentStateAttached

\* the test of the short-circuit: the first attachment names the instance
AlreadyAttached(v, instance) ==
    Len(v.Attachments) > 0 /\ v.Attachments[1].InstanceId = instance

\* lastError = err
Record(err) ==
    /\ lastError' = err
    /\ lastRecorded' = err
    /\ attemptErr' = err

\* `continue`, and the end of the loop body: the loop's post statement
Continue ==
    /\ attempts' = attempts + 1
    /\ pc' = "loop_test"

\* entry of attachVolume: the short-circuit, then the locals of the loop
AttachEntry ==
    /\ pc = "attach_entry"
    /\ IF AlreadyAttached(volume, instanceID)
         THEN /\ attachRet' = NoError
              /\ pc' = "attach_done"
         ELSE /\ attachRet' = attachRet
              /\ pc' = "loop_test"
    /\ UNCHANGED <<flags, settleAt, locateVars, runVars, volume, attachLocals,
                   attachTrace, os, initVars, mountVars, fatal>>
    /\ UNCHANGED attachErrs

\* faulty variant: the error of an earlier attempt is kept across attempts
LoopTest_KeepsLastError ==
    /\ pc = "loop_test"
    /\ attempts < AttemptCap \/ ~(attempts < maxAttempts)
    /\ IF attempts < maxAttempts
         THEN /\ lastError' = IF lastError = NoError
                                 THEN NewError("Max attempts exceeded")
                                 ELSE lastError
              /\ pc' = IF attempts # 0 THEN "sleep" ELSE "issue"
         ELSE /\ lastError' = lastError
              /\ pc' = "loop_exit"
    /\ attemptErr' = IF attempts < maxAttempts THEN NoError ELSE attemptErr
    /\ UNCHANGED lastRecorded
    /\ issued' = NotIssued
    /\ polled' = NotPolled
    /\ statOk' = FALSE
    /\ UNCHANGED <<flags, settleAt, locateVars, runVars, volume, attachRet, attempts,
                   attachStarted, attachSucceeded, bAttempt, attachCalls,
                   attachOks, describeCalls, sleeps, slept, os, initVars,
                   mountVars, fatal>>

\* the loop condition, and the first statement of the body
LoopTest ==
    /\ pc = "loop_test"
    /\ attempts < AttemptCap \/ ~(attempts < maxAttempts)
    /\ IF attempts < maxAttempts
         THEN /\ lastError' = NewError("Max attempts exceeded")
              /\ pc' = IF attempts # 0 THEN "sleep" ELSE "issue"
         ELSE /\ lastError' = lastError
              /\ pc' = "loop_exit"
    /\ attemptErr' = IF attempts < maxAttempts THEN NoError ELSE attemptErr
    /\ UNCHANGED lastRecorded
    /\ issued' = NotIssued
    /\ polled' = NotPolled
    /\ statOk' = FALSE
    /\ UNCHANGED <<flags, settleAt, locateVars, runVars, volume, attachRet, attempts,
                   attachStarted, attachSucceeded, bAttempt, attachCalls,
                   attachOks, describeCalls, sleeps, slept, os, initVars,
                   mountVars, fatal>>

\* faulty variant: the interval is computed from the loop counter
Sleep_ByAttempts ==
    /\ pc = "sleep"
    /\ bAttempt' = bAttempt + 1
    /\ sleeps' = sleeps + 1
    /\ slept' = slept + ForAttempt(attempts)
    /\ pc' = "issue"
    /\ UNCHANGED <<flags, settleAt, locateVars, runVars, volume, attachRet, attempts,
                   attachStarted, attachSucceeded, lastError, issued, polled,
                   statOk, attachCalls, attachOks, describeCalls, os,
                   initVars, mountVars, fatal>>
    /\ UNCHANGED attachErrs

\* b.Duration() and time.Sleep
Sleep ==
    /\ pc = "sleep"
    /\ bAttempt' = bAttempt + 1
    /\ sleeps' = sleeps + 1
    /\ slept' = slept + ForAttempt(bAttempt)
    /\ pc' = "issue"
    /\ UNCHANGED <<flags, settleAt, locateVars, runVars, volume, attachRet, attempts,
                   attachStarted, attachSucceeded, lastError, issued, polled,
                   statOk, attachCalls, attachOks, describeCalls, os,
                   initVars, mountVars, fatal>>
    /\ UNCHANGED attachErrs

\* the provider never settles, or it settles at the attempt settleAt: from
\* then on AttachVolume is accepted, the poll reports "attached" and the
\* device path is present
NeverSettles == AttemptCap + 1

Settled == attempts >= settleAt

\* whether AttachVolume may be accepted: either way, and always once the
\* provider has settled
IssueAnswers == IF Settled THEN {TRUE} ELSE BOOLEAN

\* faulty variant: every attempt sends the AttachVolume request
MustIssue_Always(started) == TRUE

\* whether an attempt sends the AttachVolume request: if !attachStarted
MustIssue(started) == ~started

\* faulty variant: the flag is raised before the call's error is looked at
Issue_FlagBeforeCheck ==
    /\ pc = "issue"
    /\ IF MustIssue(attachStarted)
         THEN /\ attachCalls' = attachCalls + 1
              /\ attachStarted' = TRUE
              /\ \E ok \in IssueAnswers :
                    IF ok
                    THEN /\ issued' = "ok"
                         /\ attachOks' = attachOks + 1
                         /\ pc' = "poll"
                         /\ UNCHANGED <<attempts, lastError, attachErrs>>
                    ELSE /\ issued' = "err"
                         /\ Record(AttachVolumeError)
                         /\ Continue
                         /\ UNCHANGED attachOks
         ELSE /\ pc' = "poll"
              /\ UNCHANGED <<attempts, attachStarted, lastError, attachErrs, issued,
                             attachCalls, attachOks>>
    /\ UNCHANGED <<flags, settleAt, locateVars, runVars, volume, attachRet,
                   attachSucceeded, bAttempt, polled, statOk, describeCalls,
                   sleeps, slept, os, initVars, mountVars, fatal>>

\* if !attachStarted { svc.AttachVolume(input) ... }
Issue ==
    /\ pc = "issue"
    /\ IF MustIssue(attachStarted)
         THEN /\ attachCalls' = attachCalls + 1
              /\ \E ok \in IssueAnswers :
                    IF ok
                    THEN /\ issued' = "ok"
                         /\ attachOks' = attachOks + 1
                         /\ attachStarted' = TRUE
                         /\ pc' = "poll"
                         /\ UNCHANGED <<attempts, lastError, attachErrs>>
                    ELSE /\ issued' = "err"
                         /\ Record(AttachVolumeError)
                         /\ Continue
                         /\ UNCHANGED <<attachStarted, attachOks>>
         ELSE /\ pc' = "poll"
              /\ UNCHANGED <<attempts, attachStarted, lastError, attachErrs, issued,
                             attachCalls, attachOks>>
    /\ UNCHANGED <<flags, settleAt, locateVars, runVars, volume, attachRet,
                   attachSucceeded, bAttempt, polled, statOk, describeCalls,
                   sleeps, slept, os, initVars, mountVars, fatal>>

\* what the confirmation DescribeVolumes may answer: an error, or volumes;
\* a provider that has settled reports the first attachment as "attached"
PollAnswers ==
    IF Settled
    THEN {[err |-> NoError, Volumes |-> <<[Attachments |-> <<a>>]>>] :
            a \in {x \in Attachment :
                      x.State = VolumeAttachmentStateAttached}}
    ELSE {[err |-> DescribeVolumesError, Volumes |-> <<>>]}
         \cup {[err |-> NoError, Volumes |-> vs] :
                 vs \in {<<>>, <<[Attachments |-> <<>>]>>}
                        \cup {<<[Attachments |-> <<a>>]>> : a \in Attachment}}

\* whether os.Stat(blockDevice) may find the path: either way, and always
\* once the provider has settled
StatAnswers == IF Settled THEN {TRUE} ELSE BOOLEAN

\* faulty variant: an error of the poll ends the loop
Poll_ErrorEndsLoop ==
    /\ pc = "poll"
    /\ describeCalls' = describeCalls + 1
    /\ \E answer \in PollAnswers :
          IF answer.err # NoError
          THEN /\ Record(answer.err)
               /\ attempts' = attempts
               /\ pc' = "loop_exit"
               /\ UNCHANGED polled
          ELSE IF Len(answer.Volumes) = 0
          THEN /\ Continue
               /\ UNCHANGED <<lastError, attachErrs, polled>>
          ELSE IF Len(answer.Volumes[1].Attachments) = 0
          THEN /\ Continue
               /\ UNCHANGED <<lastError, attachErrs, polled>>
          ELSE /\ polled' = answer.Volumes[1].Attachments[1]
               /\ UNCHANGED <<lastError, attachErrs>>
               /\ IF answer.Volumes[1].Attachments[1].State = VolumeAttachmentStateAttached
                    THEN /\ pc' = "stat"
                         /\ attempts' = attempts
                    ELSE Continue
    /\ UNCHANGED <<flags, settleAt, locateVars, runVars, volume, attachRet,
                   attachStarted, attachSucceeded, bAttempt, issued, statOk,
                   attachCalls, attachOks, sleeps, slept, os, initVars,
                   mountVars, fatal>>

\* svc.DescribeVolumes, and the checks on its answer
Poll ==
    /\ pc = "poll"
    /\ describeCalls' = describeCalls + 1
    /\ \E answer \in PollAnswers :
          IF answer.err # NoError
          THEN /\ Record(answer.err)
               /\ Continue
               /\ UNCHANGED polled
          ELSE IF Len(answer.Volumes) = 0
          THEN /\ Continue
               /\ UNCHANGED <<lastError, attachErrs, polled>>
          ELSE IF Len(answer.Volumes[1].Attachments) = 0
          THEN /\ Continue
               /\ UNCHANGED <<lastError, attachErrs, polled>>
          ELSE /\ polled' = answer.Volumes[1].Attachments[1]
               /\ UNCHANGED <<lastError, attachErrs>>
               /\ IF answer.Volumes[1].Attachments[1].State = VolumeAttachmentStateAttached
                    THEN /\ pc' = "stat"
                         /\ attempts' = attempts
                    ELSE Continue
    /\ UNCHANGED <<flags, settleAt, locateVars, runVars, volume, attachRet,
                   attachStarted, attachSucceeded, bAttempt, issued, statOk,
                   attachCalls, attachOks, sleeps, slept, os, initVars,
                   mountVars, fatal>>

\* faulty variant: the error of os.Stat is dropped
StatDevice_ErrorDropped ==
    /\ pc = "stat"
    /\ \E exists \in StatAnswers :
          /\ statOk' = exists
          /\ attachSucceeded' = TRUE
          /\ pc' = "loop_exit"
          /\ UNCHANGED <<attempts, lastError, attachErrs>>
    /\ UNCHANGED <<flags, settleAt, locateVars, runVars, volume, attachRet,
                   attachStarted, bAttempt, issued, polled, attachCalls,
                   attachOks, describeCalls, sleeps, slept, os, initVars,
                   mountVars, fatal>>

\* faulty variant: a confirmed attachment does not leave the loop
StatDevice_NoBreak ==
    /\ pc = "stat"
    /\ \E exists \in StatAnswers :
          /\ statOk' = exists
          /\ IF exists
               THEN /\ attachSucceeded' = TRUE
                    /\ Continue
                    /\ UNCHANGED <<lastError, attachErrs>>
               ELSE /\ Record(StatError)
                    /\ Continue
                    /\ UNCHANGED attachSucceeded
    /\ UNCHANGED <<flags, settleAt, locateVars, runVars, volume, attachRet,
                   attachStarted, bAttempt, issued, polled, attachCalls,
                   attachOks, describeCalls, sleeps, slept, os, initVars,
                   mountVars, fatal>>

\* os.Stat(blockDevice) after the poll reported "attached"
StatDevice ==
    /\ pc = "stat"
    /\ \E exists \in StatAnswers :
          /\ statOk' = exists
          /\ IF exists
               THEN /\ attachSucceeded' = TRUE
                    /\ pc' = "loop_exit"
                    /\ UNCHANGED <<attempts, lastError, attachErrs>>
               ELSE /\ Record(StatError)
                    /\ Continue
                    /\ UNCHANGED attachSucceeded
    /\ UNCHANGED <<flags, settleAt, locateVars, runVars, volume, attachRet,
                   attachStarted, bAttempt, issued, polled, attachCalls,
                   attachOks, describeCalls, sleeps, slept, os, initVars,
                   mountVars, fatal>>

\* after the loop: the error of an exhausted budget, or nil
LoopExit ==
    /\ pc = "loop_exit"
    /\ attachRet' = IF ~attachSucceeded
                     THEN Wrap(lastError, "Attaching volume failed")
                     ELSE NoError
    /\ pc' = "attach_done"
    /\ UNCHANGED <<flags, settleAt, locateVars, runVars, volume, attachLocals,
                   attachTrace, os, initVars, mountVars, fatal>>
    /\ UNCHANGED attachErrs

\* ------------------------------------------------- ensureVolumeInited

fileSystemFormatType == "ext4"

NotProbed == "none"
NoPrevInit == [calls |-> 0, ret |-> NoError, formats |-> 0]

\* how `sudo blkid dev` may end on a device: exit 0 with a signature found,
\* exit 2 with none, or a failure of its own (sudo, the tool, the device path)
ProbeExits(fs) ==
    (IF fs THEN {"found"} ELSE {"no signature"}) \cup {"failed"}

MkfsError == NewError("mkfs: exit status 1")

\* exec.Command("sudo", "/usr/sbin/blkid", blockDevice).Run()
InitProbe ==
    /\ pc = "init_probe"
    /\ \E exit \in ProbeExits(hasFS) :
          /\ probed' = exit
          /\ IF exit = "found"
               THEN /\ initRet' = NoError
                    /\ pc' = "init_done"
               ELSE /\ initRet' = initRet
                    /\ pc' = "init_format"
    /\ UNCHANGED <<flags, settleAt, locateVars, runVars, volume, attachRet,
                   attachLocals, attachTrace, os, formatCalls, prevInit,
                   mountVars, fatal>>
    /\ UNCHANGED attachErrs

\* exec.Command("sudo", "/usr/sbin/mkfs."+fileSystemFormatType, blockDevice)
InitFormat ==
    /\ pc = "init_format"
    /\ formatCalls' = formatCalls + 1
    /\ \E ok \in BOOLEAN :
          IF ok
          THEN /\ hasFS' = TRUE
               /\ initRet' = NoError
          ELSE /\ hasFS' = hasFS
               /\ initRet' = Wrap(MkfsError, "mkfs." \o fileSystemFormatType \o " failed")
    /\ pc' = "init_done"
    /\ UNCHANGED <<flags, settleAt, locateVars, runVars, volume, attachRet,
                   attachLocals, attachTrace, mtab, probed, prevInit,
                   mountVars, fatal>>
    /\ UNCHANGED attachErrs

\* ------------------------------------------------ ensureVolumeMounted

\* fmt.Sprintf("%s on %s", blockDevice, mountPoint)
SprintfOn(device, dir) == device \o <<" ", "o", "n", " ">> \o dir

\* strings.Contains
Contains(s, substr) ==
    \E i \in 1 .. (Len(s) - Len(substr) + 1) :
        SubSeq(s, i, i + Len(substr) - 1) = substr

\* the line `mount` prints for a mounted device
MountLine(device, dir) == SprintfOn(device, dir) \o <<" ", "t", ";">>

\* mount tables the system may hold when the process starts: empty, the
\* device at the mount point, the device at a directory the mount point is a
\* prefix of, another device whose path ends with the device's, an unrelated one
MountTables ==
    { <<>>,
      MountLine(blockDevice, mountPoint),
      MountLine(blockDevice, mountPoint \o <<"2">>),
      MountLine(<<"/", "m">> \o blockDevice, mountPoint),
      MountLine(<<"/", "y">>, <<"/", "e">>) }

MkdirError == NewError("mkdir: exit status 1")
MountTableError == NewError("mount: exit status 1")
CannotMount == "cannot mount or verify mount. cowardly refusing to continue"

NotMounted == "none"

\* exec.Command("sudo", "mkdir", "-p", mountPoint)
MountMkdir ==
    /\ pc = "mount_mkdir"
    /\ \E ok \in BOOLEAN :
          IF ok
          THEN /\ pc' = "mount_mount"
               /\ mountRet' = mountRet
          ELSE /\ pc' = "mount_done"
               /\ mountRet' = Wrap(MkdirError, "mountpoint creation failed")
    /\ UNCHANGED <<flags, settleAt, locateVars, runVars, volume, attachRet,
                   attachLocals, attachTrace, os, initVars, mounted,
                   mountCalls, tableReads, tableErr, fatal>>
    /\ UNCHANGED attachErrs

\* how `mount dev dir` may end: it fails on a device already mounted there
MountExits(table) ==
    IF table = MountLine(blockDevice, mountPoint) THEN {FALSE} ELSE BOOLEAN

\* exec.Command("sudo", "mount", blockDevice, mountPoint)
MountMount ==
    /\ pc = "mount_mount"
    /\ mountCalls' = mountCalls + 1
    /\ \E ok \in MountExits(mtab) :
          IF ok
          THEN /\ mounted' = "ok"
               /\ mtab' = mtab \o MountLine(blockDevice, mountPoint)
               /\ mountRet' = NoError
               /\ pc' = "mount_done"
          ELSE /\ mounted' = "failed"
               /\ mtab' = mtab
               /\ mountRet' = mountRet
               /\ pc' = "mount_table"
    /\ UNCHANGED <<flags, settleAt, locateVars, runVars, volume, attachRet,
                   attachLocals, attachTrace, hasFS, initVars, tableReads,
                   tableErr, fatal>>
    /\ UNCHANGED attachErrs

\* faulty variant: a device found in the table is mounted once more
MountTable_Remounts ==
    /\ pc = "mount_table"
    /\ tableReads' = tableReads + 1
    /\ \E err \in {NoError, MountTableError} :
          /\ tableErr' = err
          /\ IF err # NoError
               THEN mountRet' = Wrap(err, CannotMount) /\ mountCalls' = mountCalls
               ELSE IF Contains(mtab, SprintfOn(blockDevice, mountPoint))
               THEN mountRet' = NoError /\ mountCalls' = mountCalls + 1
               ELSE mountRet' = Wrap(err, CannotMount) /\ mountCalls' = mountCalls
    /\ pc' = "mount_done"
    /\ UNCHANGED <<flags, settleAt, locateVars, runVars, volume, attachRet,
                   attachLocals, attachTrace, os, initVars, mounted, fatal>>
    /\ UNCHANGED attachErrs

\* exec.Command("mount").Output() and the search of its output
MountTable ==
    /\ pc = "mount_table"
    /\ tableReads' = tableReads + 1
    /\ \E err \in {NoError, MountTableError} :
          /\ tableErr' = err
          /\ IF err # NoError
               THEN mountRet' = Wrap(err, CannotMount)
               ELSE IF Contains(mtab, SprintfOn(blockDevice, mountPoint))
               THEN mountRet' = NoError
               ELSE mountRet' = Wrap(err, CannotMount)
    /\ pc' = "mount_done"
    /\ UNCHANGED <<flags, settleAt, locateVars, runVars, volume, attachRet,
                   attachLocals, attachTrace, os, initVars, mounted,
                   mountCalls, fatal>>
    /\ UNCHANGED attachErrs

\* ------------------------------------------------------- volumeFromID

NotFoundError == NewError("cannot find volume with volume-id")

\* the answers that hold more than one volume
SecondVolume ==
    [Attachments |-> <<[InstanceId |-> instanceID, Device |-> blockDevice,
                        State |-> "attached"]>>]

\* what the filtered DescribeVolumes may answer: a provider error (an
\* awserr.Error or another error), or volumes
RequestError == NewError("DescribeVolumes: request failed")

NoResult == [err |-> NoError, Volumes |-> <<>>]

LocateAnswers ==
    {[err |-> e, Volumes |-> <<>>] : e \in {DescribeVolumesError, RequestError}}
    \cup {[err |-> NoError, Volumes |-> vs] :
            vs \in {<<>>} \cup {<<v>> : v \in Volumes}
                   \cup {<<v, SecondVolume>> : v \in Volumes}}

\* the Filters of volumeFromID's DescribeVolumesInput
LocateFilterNames == {"volume-id", "availability-zone"}

\* faulty variant: the last volume of the answer is returned
Located_Last(volumes) == volumes[Len(volumes)]

\* return result.Volumes[0], nil
Located(volumes) == volumes[1]

\* volumeFromID
Locate ==
    /\ pc = "locate"
    /\ locateCalls' = locateCalls + 1
    /\ locateFilters' = LocateFilterNames
    /\ \E answer \in LocateAnswers :
          /\ result' = answer
          /\ IF answer.err # NoError
               THEN /\ locateErr' = answer.err
                    /\ volume' = volume
               ELSE IF Len(answer.Volumes) = 0
               THEN /\ locateErr' = NotFoundError
                    /\ volume' = volume
               ELSE /\ locateErr' = NoError
                    /\ volume' = Located(answer.Volumes)
    /\ pc' = "locate_done"
    /\ UNCHANGED <<flags, settleAt, runVars, attachRet, attachLocals,
                   attachTrace, os, initVars, mountVars, fatal>>
    /\ UNCHANGED attachErrs

\* --------------------------------------------------------------- main

MetadataError == NewError("metadata: request failed")

\* metadataSVC.GetMetadata("placement/availability-zone")
MainAvailabilityZone ==
    /\ pc = "main_az"
    /\ \E err \in {NoError, MetadataError} :
          /\ stages' = Append(stages, [stage |-> "az", ok |-> err = NoError])
          /\ IF err # NoError
               THEN /\ fatal' = err
                    /\ pc' = "panic"
               ELSE /\ fatal' = fatal
                    /\ pc' = IF useEBS THEN "locate" ELSE "init_probe"
    /\ metadataCalls' = metadataCalls + 1
    /\ UNCHANGED <<flags, settleAt, locateVars, volume, attachRet, attachLocals,
                   attachTrace, os, initVars, mountVars>>
    /\ UNCHANGED attachErrs

\* volume, err := volumeFromID(...); if err != nil { panic(err) }
MainAfterLocate ==
    /\ pc = "locate_done"
    /\ IF locateErr # NoError
         THEN /\ fatal' = locateErr
              /\ pc' = "panic"
         ELSE /\ fatal' = fatal
              /\ pc' = "main_instance"
    /\ result' = NoResult
    /\ stages' = Append(stages, [stage |-> "locate", ok |-> locateErr = NoError])
    /\ UNCHANGED metadataCalls
    /\ UNCHANGED <<flags, settleAt, volume, attachRet, attachLocals, attachTrace, os,
                   initVars, mountVars, locateCalls, locateFilters,
                   locateErr>>
    /\ UNCHANGED attachErrs

\* metadataSVC.GetMetadata("instance-id")
MainInstanceID ==
    /\ pc = "main_instance"
    /\ \E err \in {NoError, MetadataError} :
          /\ stages' = Append(stages, [stage |-> "instance", ok |-> err = NoError])
          /\ IF err # NoError
               THEN /\ fatal' = err
                    /\ pc' = "panic"
               ELSE /\ fatal' = fatal
                    /\ pc' = "attach_entry"
    /\ metadataCalls' = metadataCalls + 1
    /\ UNCHANGED <<flags, settleAt, locateVars, volume, attachRet, attachLocals,
                   attachTrace, os, initVars, mountVars>>
    /\ UNCHANGED attachErrs

\* faulty variant: the error of attachVolume is logged, not panicked on
MainAfterAttach_ErrorIgnored ==
    /\ pc = "attach_done"
    /\ fatal' = fatal
    /\ pc' = "init_probe"
    /\ AttachFramePopped
    /\ stages' = Append(stages, [stage |-> "attach", ok |-> attachRet = NoError])
    /\ UNCHANGED metadataCalls
    /\ UNCHANGED <<flags, settleAt, locateVars, volume, attachRet, os, initVars,
                   mountVars>>

\* err = attachVolume(...); if err != nil { panic(err) }: the callee's frame
\* is gone
MainAfterAttach ==
    /\ pc = "attach_done"
    /\ IF attachRet # NoError
         THEN /\ fatal' = attachRet
              /\ pc' = "panic"
         ELSE /\ fatal' = fatal
              /\ pc' = "init_probe"
    /\ AttachFramePopped
    /\ stages' = Append(stages, [stage |-> "attach", ok |-> attachRet = NoError])
    /\ UNCHANGED metadataCalls
    /\ UNCHANGED <<flags, settleAt, locateVars, volume, attachRet, os, initVars,
                   mountVars>>

\* if err := ensureVolumeInited(...); err != nil { panic(err) }
MainAfterInit ==
    /\ pc = "init_done"
    /\ IF initRet # NoError
         THEN /\ fatal' = initRet
              /\ pc' = "panic"
         ELSE /\ fatal' = fatal
              /\ pc' = "mount_mkdir"
    /\ stages' = Append(stages, [stage |-> "init", ok |-> initRet = NoError])
    /\ UNCHANGED metadataCalls
    /\ UNCHANGED <<flags, settleAt, locateVars, volume, attachRet, attachLocals,
                   attachTrace, os, initVars, mountVars>>
    /\ UNCHANGED attachErrs

\* if err := ensureVolumeMounted(...); err != nil { panic(err) }
MainAfterMount ==
    /\ pc = "mount_done"
    /\ IF mountRet # NoError
         THEN /\ fatal' = mountRet
              /\ pc' = "panic"
         ELSE /\ fatal' = fatal
              /\ pc' = "done"
    /\ stages' = Append(stages, [stage |-> "mount", ok |-> mountRet = NoError])
    /\ UNCHANGED metadataCalls
    /\ UNCHANGED <<flags, settleAt, locateVars, volume, attachRet, attachLocals,
                   attachTrace, os, initVars, mountVars>>
    /\ UNCHANGED attachErrs

\* the process after flag.Parse(), on a system in some state
Init ==
    /\ pc = "main_az"
    /\ maxAttempts \in Budgets
    /\ useEBS \in BOOLEAN
    /\ volume = NoVolume
    /\ attachRet = NoError
    /\ AttachIdle
    /\ hasFS \in BOOLEAN
    /\ mtab \in MountTables
    /\ initRet = NoError
    /\ probed = NotProbed
    /\ formatCalls = 0
    /\ prevInit = NoPrevInit
    /\ mountRet = NoError
    /\ mounted = NotMounted
    /\ mountCalls = 0
    /\ tableReads = 0
    /\ tableErr = NoError
    /\ fatal = NoError
    /\ locateCalls = 0
    /\ locateFilters = {}
    /\ result = NoResult
    /\ locateErr = NoError
    /\ stages = <<>>
    /\ metadataCalls = 0
    /\ settleAt = NeverSettles

Next ==
    \/ MainAvailabilityZone
    \/ Locate
    \/ MainAfterLocate
    \/ MainInstanceID
    \/ AttachEntry
    \/ LoopTest
    \/ Sleep
    \/ Issue
    \/ Poll
    \/ StatDevice
    \/ LoopExit
    \/ MainAfterAttach
    \/ InitProbe
    \/ InitFormat
    \/ MainAfterInit
    \/ MountMkdir
    \/ MountMount
    \/ MountTable
    \/ MainAfterMount

Spec == Init /\ [][Next]_vars

\* ------------------------------- consecutive calls of ensureVolumeInited

\* ensureVolumeInited is called again on the same device (the next boot)
InitAgain ==
    /\ pc = "init_done"
    /\ prevInit.calls + 1 < MaxInitCalls
    /\ prevInit' = [calls |-> prevInit.calls + 1, ret |-> initRet,
                    formats |-> formatCalls]
    /\ initRet' = NoError
    /\ probed' = NotProbed
    /\ formatCalls' = 0
    /\ pc' = "init_probe"
    /\ UNCHANGED <<flags, settleAt, locateVars, runVars, volume, attachRet,
                   attachLocals, attachTrace, os, mountVars, fatal>>
    /\ UNCHANGED attachErrs

InitCalls ==
    /\ pc = "init_probe"
    /\ maxAttempts = DefaultMaxAttempts
    /\ useEBS = FALSE
    /\ volume = NoVolume
    /\ attachRet = NoError
    /\ AttachIdle
    /\ hasFS \in BOOLEAN
    /\ mtab \in MountTables
    /\ initRet = NoError
    /\ probed = NotProbed
    /\ formatCalls = 0
    /\ prevInit = NoPrevInit
    /\ mountRet = NoError
    /\ mounted = NotMounted
    /\ mountCalls = 0
    /\ tableReads = 0
    /\ tableErr = NoError
    /\ fatal = NoError
    /\ locateCalls = 0
    /\ locateFilters = {}
    /\ result = NoResult
    /\ locateErr = NoError
    /\ stages = <<[stage |-> "az", ok |-> TRUE]>>
    /\ metadataCalls = 1
    /\ settleAt = NeverSettles

NextCalls ==
    \/ InitProbe
    \/ InitFormat
    \/ InitAgain

SpecInitCalls == InitCalls /\ [][NextCalls]_vars

\* the volumes a call of attachVolume on its own is given: unattached, or
\* with one settled attachment, to this instance or to another
AttachVolumes ==
    {v \in Volumes :
        /\ Len(v.Attachments) <= 1
        /\ \A i \in 1 .. Len(v.Attachments) :
              /\ v.Attachments[i].State = VolumeAttachmentStateAttached
              /\ v.Attachments[i].Device = blockDevice}

\* a call of attachVolume on its own: main has looked up the zone, the
\* volume and the instance id, and the provider settles at some attempt or
\* never does
InitAttach ==
    /\ pc = "attach_entry"
    /\ maxAttempts \in Budgets
    /\ useEBS = TRUE
    /\ volume \in AttachVolumes
    /\ attachRet = NoError
    /\ AttachIdle
    /\ hasFS = FALSE
    /\ mtab = <<>>
    /\ initRet = NoError
    /\ probed = NotProbed
    /\ formatCalls = 0
    /\ prevInit = NoPrevInit
    /\ mountRet = NoError
    /\ mounted = NotMounted
    /\ mountCalls = 0
    /\ tableReads = 0
    /\ tableErr = NoError
    /\ fatal = NoError
    /\ locateCalls = 1
    /\ locateFilters = LocateFilterNames
    /\ result = NoResult
    /\ locateErr = NoError
    /\ stages = <<[stage |-> "az", ok |-> TRUE],
                  [stage |-> "locate", ok |-> TRUE],
                  [stage |-> "instance", ok |-> TRUE]>>
    /\ metadataCalls = 2
    /\ settleAt \in (0 .. MaxSettle) \cup {NeverSettles}

NextAttach ==
    \/ AttachEntry
    \/ LoopTest
    \/ Sleep
    \/ Issue
    \/ Poll
    \/ StatDevice
    \/ LoopExit

\* the process is never suspended for good: a sleep ends and a call to the
\* provider or to the system returns, so a step that can be taken is taken
SpecAttach == InitAttach /\ [][NextAttach]_vars /\ WF_vars(NextAttach)

\* -------------------------------------------------------------- claims

\* positions inside a call of attachVolume
AttachPositions ==
    {"attach_entry", "loop_test", "sleep", "issue", "poll", "stat",
     "loop_exit", "attach_done"}

\* the volume's existing (first) attachment names the requesting instance
OwnedByRequester ==
    /\ volume.Attachments # <<>>
    /\ Head(volume.Attachments).InstanceId = instanceID

\* C1: for a volume whose existing attachment names the requesting instance,
\* attachVolume never enters the retry loop and returns nil having sent no
\* AttachVolume request, made no confirmation poll and slept not at all,
\* whatever the retry budget.
C1_ShortCircuit ==
    (pc \in AttachPositions /\ OwnedByRequester) =>
        /\ pc \in {"attach_entry", "attach_done"}
        /\ attachCalls = 0
        /\ describeCalls = 0
        /\ sleeps = 0
        /\ slept = 0
        /\ (pc = "attach_done" => attachRet = NoError)

\* C1 witness: attachVolume has returned for an owned volume, with a budget
\* of zero attempts
C1_Witness ==
    /\ pc = "attach_done"
    /\ OwnedByRequester
    /\ maxAttempts = 0

\* C2 as stated: the AttachVolume request is sent at most once in a run,
\* calls that return an error included.
C2_AtMostOneRequest == attachCalls <= 1

\* C2 as amended: at most one AttachVolume request is answered without error
\* in a run, and at most one request is sent per attempt.
C2_AtMostOneAcceptedRequest ==
    /\ attachOks <= 1
    /\ attachCalls <= attempts + 1

\* C2 witness: a request was accepted after two requests had failed
C2_Witness ==
    /\ attachOks = 1
    /\ attachCalls = 3

\* C3: the issuance flag is raised only by an AttachVolume call that returns
\* without error and stays raised for the rest of the call; a call that
\* errors ends the attempt without a poll and leaves the flag down, and an
\* attempt that finds the flag down calls AttachVolume; with the flag raised
\* no AttachVolume request is sent any more.
C3_IssuanceFlag ==
    [][ /\ (attachStarted' /\ ~attachStarted) =>
              (pc = "issue" /\ issued' = "ok" /\ attachCalls' = attachCalls + 1)
        /\ (attachStarted /\ pc' \in AttachPositions) => attachStarted'
        /\ (pc = "issue" /\ issued' = "err") =>
              /\ ~attachStarted'
              /\ describeCalls' = describeCalls
              /\ pc' = "loop_test"
              /\ attempts' = attempts + 1
        /\ (pc = "issue" /\ ~attachStarted) => attachCalls' = attachCalls + 1
        /\ (attachStarted /\ pc' \in AttachPositions) => attachCalls' = attachCalls
      ]_vars

\* C3 witness: the flag is up after a failed and an accepted request, and a
\* later attempt is polling
C3_Witness ==
    /\ attachStarted
    /\ attachCalls = 2
    /\ pc = "poll"
    /\ attempts = 3

\* the k-th interval of the schedule 5, 10, 20, 40, 80, 100, 100, ...
ScheduleInterval(k) == IF k >= 6 THEN 100 ELSE 5 * (2 ^ (k - 1))

RECURSIVE ScheduleSum(_)
ScheduleSum(n) == IF n <= 0 THEN 0 ELSE ScheduleSum(n - 1) + ScheduleInterval(n)

\* C4: with a budget N >= 1, a volume not attached to this instance and no
\* attempt that confirms, attachVolume makes exactly N attempts, returns an
\* error, and has slept N-1 times, the sum of the first N-1 intervals of
\* 5, 10, 20, 40, 80, 100, 100, ... seconds.
C4_ExhaustedBudget ==
    (pc = "attach_done" /\ ~OwnedByRequester /\ ~attachSucceeded
        /\ maxAttempts >= 1) =>
        /\ attempts = maxAttempts
        /\ attachRet # NoError
        /\ sleeps = maxAttempts - 1
        /\ slept = ScheduleSum(maxAttempts - 1)

\* C4 witness: a budget of 7 is exhausted after 5+10+20+40+80+100 seconds
C4_Witness ==
    /\ pc = "attach_done"
    /\ ~OwnedByRequester
    /\ ~attachSucceeded
    /\ maxAttempts = 7
    /\ attempts = 7
    /\ slept = 255

\* C5: the loop ends with success only in an attempt whose poll reported the
\* first attachment as "attached" and whose check of the device path
\* succeeded; an attempt whose poll reported "attached" and whose check of
\* the device path failed records the error and is followed by the next one.
C5_SuccessNeedsAttachedAndDevice ==
    [][ /\ (attachSucceeded' /\ ~attachSucceeded) =>
              /\ pc = "stat"
              /\ polled.State = "attached"
              /\ statOk'
              /\ pc' = "loop_exit"
        /\ (pc' = "loop_exit" /\ pc # "loop_exit" /\ attachSucceeded') =>
              (polled'.State = "attached" /\ statOk')
        /\ (pc = "stat" /\ ~statOk') =>
              /\ ~attachSucceeded'
              /\ lastError' = StatError
              /\ attempts' = attempts + 1
              /\ pc' = "loop_test"
      ]_vars

\* C5 witness: an attempt is retried after "attached" was polled with the
\* device path absent
C5_Witness ==
    /\ pc = "loop_test"
    /\ polled.State = "attached"
    /\ ~statOk
    /\ lastError = StatError
    /\ attempts < maxAttempts

\* C6: for every accepted budget, zero and negative ones included, a call for
\* a volume not attached to this instance in which no attempt succeeds
\* returns the "Attaching volume failed" error, never nil.
C6_NoSuccessWithoutConfirmation ==
    (pc = "attach_done" /\ ~OwnedByRequester /\ ~attachSucceeded) =>
        /\ attachRet # NoError
        /\ Head(attachRet) = "Attaching volume failed"

\* C7: when `mount dev dir` fails and the mount table, read without error,
\* has no "<device> on <mountPoint>", or the read of the table errors,
\* ensureVolumeMounted returns the "cannot mount or verify" error, never nil.
C7_UnverifiedMountFails ==
    (pc = "mount_done" /\ mounted = "failed"
        /\ (tableErr # NoError
            \/ ~Contains(mtab, SprintfOn(blockDevice, mountPoint)))) =>
        /\ mountRet # NoError
        /\ Head(mountRet) = CannotMount

\* C8: when `mount dev dir` fails and the mount table, read without error,
\* lists "<device> on <mountPoint>", ensureVolumeMounted returns nil having
\* invoked `mount dev dir` exactly once; when `mount dev dir` succeeds the
\* mount table is not read.
C8_AlreadyMountedIsSuccess ==
    /\ (pc = "mount_done" /\ mounted = "failed" /\ tableErr = NoError
          /\ Contains(mtab, SprintfOn(blockDevice, mountPoint))) =>
            (mountRet = NoError /\ mountCalls = 1 /\ tableReads = 1)
    /\ (mounted = "ok") => (tableReads = 0 /\ mountCalls = 1)

\* C8 witness: the mount failed and the table, holding only the device's own
\* line, was read
C8_Witness ==
    /\ pc = "mount_done"
    /\ mounted = "failed"
    /\ tableReads = 1
    /\ tableErr = NoError
    /\ mtab = MountLine(blockDevice, mountPoint)

\* C9: a call in which the probe exits with success invokes no format and
\* returns nil; and a call of ensureVolumeInited that follows one that
\* returned nil on the same device invokes no format.
C9_Idempotent ==
    /\ (pc = "init_done" /\ probed = "found") =>
            (formatCalls = 0 /\ initRet = NoError)
    /\ (prevInit.calls >= 1 /\ prevInit.ret = NoError) => formatCalls = 0

\* C10: the format tool is invoked only on a device that holds no filesystem
\* signature, however the probe ended.
C10_NoFormatOverFilesystem ==
    [][formatCalls' > formatCalls => ~hasFS]_vars

\* C11: volumeFromID makes exactly one DescribeVolumes call, filtered by
\* volume-id and availability-zone, and the run never makes another; a failed
\* call returns the provider's error as it is, an answer without volumes
\* returns the not-found error, which is no provider error, and an answer
\* with volumes returns the first of them and no error.
C11_LocateOnce ==
    /\ locateCalls <= 1
    /\ pc = "locate_done" =>
        /\ locateCalls = 1
        /\ locateFilters = {"volume-id", "availability-zone"}
        /\ result.err # NoError => locateErr = result.err
        /\ (result.err = NoError /\ result.Volumes = <<>>) =>
              /\ locateErr = NewError("cannot find volume with volume-id")
              /\ locateErr \notin {DescribeVolumesError, RequestError}
        /\ (result.err = NoError /\ result.Volumes # <<>>) =>
              /\ locateErr = NoError
              /\ volume = Head(result.Volumes)

\* C11 witness: volumeFromID returned the first of two different volumes
C11_Witness ==
    /\ pc = "locate_done"
    /\ Len(result.Volumes) = 2
    /\ volume = result.Volumes[1]
    /\ result.Volumes[1] # result.Volumes[2]

\* the order in which main runs its stages: the two lookups of the metadata
\* service (the zone before the Locator, the instance id after it), the
\* Locator, the Attachment Reconciler, the Filesystem Initializer, the Mount
\* Reconciler
StageOrder == <<"az", "locate", "instance", "attach", "init", "mount">>

ReturnedOk(stage) ==
    \E i \in 1 .. Len(stages) : stages[i] = [stage |-> stage, ok |-> TRUE]

\* C12: with attachment enabled the stages return in the order metadata
\* lookup, Locator, Attachment Reconciler, Filesystem Initializer, Mount
\* Reconciler; a stage is entered, and its external calls are made, only
\* after every earlier stage returned without error, and after a stage
\* returned an error the process has panicked and nothing else runs.
C12_StagesGate ==
    useEBS =>
        /\ Len(stages) <= Len(StageOrder)
        /\ \A i \in 1 .. Len(stages) :
              /\ stages[i].stage = StageOrder[i]
              /\ i < Len(stages) => stages[i].ok
        /\ (stages # <<>> /\ ~stages[Len(stages)].ok) => pc = "panic"
        /\ (pc \in {"locate", "locate_done"} \/ locateCalls > 0) =>
              ReturnedOk("az")
        /\ (pc \in AttachPositions \/ attachCalls > 0 \/ describeCalls > 0) =>
              (ReturnedOk("locate") /\ ReturnedOk("instance"))
        /\ (pc \in {"init_probe", "init_format", "init_done"}
              \/ probed # NotProbed \/ formatCalls > 0) => ReturnedOk("attach")
        /\ (pc \in {"mount_mkdir", "mount_mount", "mount_table", "mount_done"}
              \/ mountCalls > 0 \/ tableReads > 0) => ReturnedOk("init")
        /\ pc = "done" => ReturnedOk("mount")

\* C12 witness: attachVolume returned an error, the process panicked and no
\* probe, format or mount was run
C12_Witness ==
    /\ useEBS
    /\ pc = "panic"
    /\ Len(stages) = 4
    /\ stages[4] = [stage |-> "attach", ok |-> FALSE]
    /\ probed = NotProbed
    /\ mountCalls = 0

\* C13: with use-ebs false only the initialisation and mount steps run: no
\* metadata lookup, no DescribeVolumes and no AttachVolume is issued, and a
\* failure of the run is a failure of the initialisation or of the mount.
C13_NoProviderCallsWithoutEBS ==
    ~useEBS =>
        /\ metadataCalls = 0
        /\ locateCalls = 0
        /\ attachCalls = 0
        /\ describeCalls = 0
        /\ pc = "panic" => (ReturnedOk("init") \/ fatal = initRet)

\* the table holds an entry of its own for the device at the directory: a
\* line that starts with the device and whose mount point is the directory
HasEntry(table, device, dir) ==
    LET entry == SprintfOn(device, dir) \o <<" ">>
    IN  \E i \in 1 .. (Len(table) - Len(entry) + 1) :
            /\ SubSeq(table, i, i + Len(entry) - 1) = entry
            /\ i = 1 \/ table[i - 1] = ";"

\* C14: every run that exits with status 0 has the device mounted at the
\* mount point: the mount command succeeded or the mount table lists the
\* device at the mount point.
C14_ExitZeroMeansMounted ==
    pc = "done" =>
        (mounted = "ok" \/ HasEntry(mtab, blockDevice, mountPoint))

\* C19: the fallback on the mount table reports Success only when the table
\* holds an entry for exactly the device at exactly the mount point; an entry
\* of a longer mount point or of a device whose path ends with the device's
\* is not one.
C19_ExactEntryOnly ==
    (/\ pc = "mount_done"
     /\ mounted = "failed"
     /\ tableReads > 0
     /\ tableErr = NoError
     /\ Contains(mtab, SprintfOn(blockDevice, mountPoint))
     /\ mountRet = NoError) =>
        HasEntry(mtab, blockDevice, mountPoint)


\* C15: when attachVolume fails by exhausting its budget, the error it
\* returns wraps the error most recently recorded by any attempt of the call:
\* an error an earlier attempt recorded is the one wrapped when no later
\* attempt recorded another.
C15_WrapsLastRecorded ==
    (pc = "attach_done" /\ attachRet # NoError /\ lastRecorded # NoError) =>
        attachRet = Wrap(lastRecorded, "Attaching volume failed")

\* C15, as the code has it: the error returned on an exhausted budget wraps
\* the error the final attempt recorded, or "Max attempts exceeded" when the
\* final attempt recorded none; what earlier attempts recorded is discarded.
C15_WrapsFinalAttempt ==
    (pc = "attach_done" /\ attachRet # NoError) =>
        attachRet = Wrap(IF attemptErr # NoError
                           THEN attemptErr
                           ELSE NewError("Max attempts exceeded"),
                         "Attaching volume failed")

\* C15 witness: an earlier attempt recorded an error, the final attempt
\* recorded none, and the error returned names the exhausted budget only
C15_Witness ==
    /\ pc = "attach_done"
    /\ lastRecorded # NoError
    /\ attemptErr = NoError
    /\ attachRet = <<"Attaching volume failed", "Max attempts exceeded">>


\* C16: no sleep happens before the first attempt and exactly one before each
\* later attempt, so an attempt runs with as many sleeps behind it as attempts
\* before it; the k-th sleep lasts min(5 * 2^(k-1), 100) seconds whatever
\* made the earlier attempts fail, and no other step of attachVolume sleeps.
C16_SleepSchedule ==
    [][/\ pc' \in {"issue", "poll", "stat"} => sleeps' = attempts'
       /\ pc = "sleep" =>
             /\ sleeps' = sleeps + 1
             /\ slept' = slept + ScheduleInterval(sleeps')
       /\ pc \in (AttachPositions \ {"sleep", "attach_done"}) =>
             (sleeps' = sleeps /\ slept' = slept)]_vars

\* C16 witness: the seventh attempt starts after six sleeps of
\* 5, 10, 20, 40, 80 and 100 seconds, earlier attempts having failed at the
\* check of the device path
C16_Witness ==
    /\ pc = "issue"
    /\ attempts = 6
    /\ sleeps = 6
    /\ slept = 255
    /\ lastRecorded = StatError


\* C17: past the short-circuit attachVolume returns an error only when the
\* budget is used up: an attempt leaves the loop only by confirming the
\* attachment, every other outcome of an attempt (AttachVolume error,
\* DescribeVolumes error, no volume, no attachment, a state other than
\* "attached", no device path) ends that attempt only and moves to the next,
\* and an error is returned with all maxAttempts attempts made.
C17_FailsOnlyByExhaustion ==
    [][/\ (pc \in {"issue", "poll", "stat"} /\ pc' = "loop_exit") =>
             attachSucceeded'
       /\ (pc \in {"issue", "poll", "stat"} /\ ~attachSucceeded') =>
             /\ pc' \in {"poll", "stat", "loop_test"}
             /\ pc' = "loop_test" => attempts' = attempts + 1
       /\ (pc' = "attach_done" /\ attachRet' # NoError) =>
             (attempts' = maxAttempts /\ ~attachSucceeded')]_vars

\* C17 witness: a budget of three is used up by attempts that failed at the
\* poll, and only then is the error returned
C17_Witness ==
    /\ pc = "attach_done"
    /\ attachRet # NoError
    /\ maxAttempts = 3
    /\ attempts = 3
    /\ describeCalls = 3
    /\ lastRecorded = DescribeVolumesError


\* C20: whenever attachVolume returns nil, by the short-circuit or by the
\* loop, the attachment the provider reported last (the poll's, or else the
\* one of the volume handed in) is one to the requesting instance, in state
\* "attached", under the configured device path, and after a poll the check
\* of the device path has succeeded.
C20_SuccessMeansAttachedHere ==
    (pc = "attach_done" /\ attachRet = NoError) =>
        LET reported == IF polled # NotPolled
                          THEN <<polled>>
                          ELSE volume.Attachments
        IN  /\ reported # <<>>
            /\ reported[1].InstanceId = instanceID
            /\ reported[1].State = VolumeAttachmentStateAttached
            /\ reported[1].Device = blockDevice
            /\ polled # NotPolled => statOk


\* C18: a call of attachVolume with a bounded budget N ends, with at most N
\* attempts made; with the unbounded budget, when the provider from some
\* attempt on accepts the request and reports "attached" with the device
\* path present, the call ends with nil; and no call returns an error while
\* attempts remain.
C18_Termination ==
    /\ [](maxAttempts # DefaultMaxAttempts =>
            <>(/\ pc = "attach_done"
               /\ attempts <= (IF maxAttempts > 0 THEN maxAttempts ELSE 0)))
    /\ []((maxAttempts = DefaultMaxAttempts /\ settleAt <= MaxSettle) =>
            <>(pc = "attach_done" /\ attachRet = NoError))
    /\ []((pc = "attach_done" /\ attachRet # NoError) =>
            ~(attempts < maxAttempts))

\* C18 witness: with the unbounded budget the provider settles at the last
\* attempt it may, and the call returns nil from that very attempt
C18_Witness ==
    /\ pc = "attach_done"
    /\ maxAttempts = DefaultMaxAttempts
    /\ settleAt = MaxSettle
    /\ attempts = MaxSettle
    /\ attachSucceeded
    /\ attachRet = NoError

====
